---- MODULE Spec2Model ----
(***************************************************************************)
(* Model of Pdf_merger.py: a menu-driven tool that merges PDFs, converts a *)
(* blog URL to PDF, and converts images / office documents to PDF.         *)
(* Filenames are sequences of one-character strings so that strip, lower,  *)
(* endswith, dirname and splitext are computed as the code computes them.  *)
(***************************************************************************)
EXTENDS Integers, Sequences, FiniteSets, TLC

\* ------------------------------------------------------------------ bounds
\* Largest number of accepted filenames a collector run gathers.
MaxFiles == 2
\* Largest number of rejected lines a collector run reads.
MaxRejects == 1
\* Number of features dispatched from the menus in one session.
MaxRuns == 1

\* ------------------------------------------------------- string primitives
UpperChars == <<"A","B","C","D","E","F","G","H","I","J","K","L","M",
                "N","O","P","Q","R","S","T","U","V","W","X","Y","Z">>
LowerChars == <<"a","b","c","d","e","f","g","h","i","j","k","l","m",
                "n","o","p","q","r","s","t","u","v","w","x","y","z">>

\* str.lower() on one character
LowerChar(c) ==
    IF \E i \in 1..26 : UpperChars[i] = c
    THEN LowerChars[CHOOSE i \in 1..26 : UpperChars[i] = c]
    ELSE c

\* str.lower()
Lower(s) == [i \in 1..Len(s) |-> LowerChar(s[i])]

IsSpace(c) == c \in {" ", "\t"}

RECURSIVE LStrip(_)
LStrip(s) == IF s # <<>> /\ IsSpace(Head(s)) THEN LStrip(Tail(s)) ELSE s

RECURSIVE RStrip(_)
RStrip(s) ==
    IF s # <<>> /\ IsSpace(s[Len(s)]) THEN RStrip(SubSeq(s, 1, Len(s) - 1)) ELSE s

\* str.strip()
Strip(s) == RStrip(LStrip(s))

\* str.endswith(suffix)
EndsWith(s, suf) ==
    /\ Len(s) >= Len(suf)
    /\ SubSeq(s, Len(s) - Len(suf) + 1, Len(s)) = suf

\* str.endswith(tuple of suffixes)
EndsWithAny(s, sufs) == \E i \in 1..Len(sufs) : EndsWith(s, sufs[i])

\* str.rfind(c) + 1: position of the last c, 0 when there is none
RFind(s, c) ==
    IF \E i \in 1..Len(s) : s[i] = c
    THEN CHOOSE i \in 1..Len(s) : s[i] = c /\ \A j \in (i + 1)..Len(s) : s[j] # c
    ELSE 0

RECURSIVE RStripSlash(_)
RStripSlash(s) ==
    IF s # <<>> /\ s[Len(s)] = "/" THEN RStripSlash(SubSeq(s, 1, Len(s) - 1)) ELSE s

\* os.path.dirname (posixpath): everything up to the last "/", trailing
\* slashes removed unless the head is all slashes
Dirname(p) ==
    LET head == SubSeq(p, 1, RFind(p, "/"))
    IN  IF head # <<>> /\ \E i \in 1..Len(head) : head[i] # "/"
        THEN RStripSlash(head)
        ELSE head

\* os.path.basename (posixpath)
Basename(p) == SubSeq(p, RFind(p, "/") + 1, Len(p))

\* os.path.splitext(p)[0]: cut at the last dot of the last component, unless
\* that component has only leading dots before it
SplitextRoot(p) ==
    LET sep == RFind(p, "/")
        dot == RFind(p, ".")
    IN  IF dot > sep /\ \E i \in (sep + 1)..(dot - 1) : p[i] # "."
        THEN SubSeq(p, 1, dot - 1)
        ELSE p

DotPdf == <<".", "p", "d", "f">>

\* -------------------------------------------------- program string literals
ImageExtensions == << <<".","j","p","g">>, <<".","j","p","e","g">>, <<".","p","n","g">>,
                      <<".","w","e","b","p">>, <<".","b","m","p">> >>
WordExtensions  == << <<".","d","o","c","x">>, <<".","d","o","c">> >>
ExcelExtensions == << <<".","x","l","s","x">>, <<".","x","l","s">> >>
PptExtensions   == << <<".","p","p","t","x">>, <<".","p","p","t">> >>

\* the word that ends a prompt loop, compared with the lower-cased line
QuitWordLong == <<"q", "u", "i", "t">>

QuitWord == <<"q">>

MergedDefault == <<"m","e","r","g","e","d",".","p","d","f">>
BlogDefault   == <<"b","l","o","g","_","p","o","s","t",".","p","d","f">>
ImagesDefault == <<"i","m","a","g","e","s",".","p","d","f">>
WordDefault   == <<"w","o","r","d","_","m","e","r","g","e","d",".","p","d","f">>
ExcelDefault  == <<"e","x","c","e","l","_","m","e","r","g","e","d",".","p","d","f">>
PptDefault    == <<"p","o","w","e","r","p","o","i","n","t","_","m","e","r","g","e","d",
                   ".","p","d","f">>

OfficeFeatures == {"word", "excel", "ppt"}
FileFeatures   == {"merge", "image"} \cup OfficeFeatures

\* the extensions tuple each office wrapper passes to handle_office_conversion
OfficeExtensions(feat) ==
    CASE feat = "word"  -> WordExtensions
      [] feat = "excel" -> ExcelExtensions
      [] OTHER          -> PptExtensions

\* the default output name each feature passes to get_output_filename
DefaultName(feat) ==
    CASE feat = "merge" -> MergedDefault
      [] feat = "blog"  -> BlogDefault
      [] feat = "image" -> ImagesDefault
      [] feat = "word"  -> WordDefault
      [] feat = "excel" -> ExcelDefault
      [] OTHER          -> PptDefault

\* ------------------------------------------------ the working directory
\* Files present when the program starts (the environment the inputs are
\* drawn from).  d/a.pdf is a file inside a subdirectory.
F_a_pdf  == <<"a",".","p","d","f">>
F_b_PDF  == <<"b",".","P","D","F">>
F_k_pdf  == <<"k",".","p","d","f">>
F_n_txt  == <<"n",".","t","x","t">>
F_p_png  == <<"p",".","p","n","g">>
F_r_png  == <<"r",".","p","n","g">>
F_k_png  == <<"k",".","p","n","g">>
F_a_docx == <<"a",".","d","o","c","x">>
F_a_doc  == <<"a",".","d","o","c">>
F_s_xlsx == <<"s",".","x","l","s","x">>
F_t_pptx == <<"t",".","p","p","t","x">>
F_d_a_pdf == <<"d","/","a",".","p","d","f">>

InputFiles == {F_a_pdf, F_b_PDF, F_k_pdf, F_n_txt, F_p_png, F_r_png, F_k_png,
               F_a_docx, F_a_doc, F_s_xlsx, F_t_pptx, F_d_a_pdf}

\* files whose content the PDF / image library cannot parse
CorruptFiles == {F_k_pdf, F_k_png}

\* images stored with an alpha channel (img.mode == 'RGBA')
RgbaFiles == {F_r_png}

\* lines the user may type at a collector prompt
CollectorLines ==
    InputFiles \cup
    { <<"q">>, <<"Q">>, <<" ","q"," ">>, <<"q","u","i","t">>, <<"Q","U","I","T">>,
      <<>>, <<" ","a",".","p","d","f"," ">>,
      <<"z",".","p","d","f">>, <<"z",".","t","x","t">>, <<"z",".","d","o","c">>,
      <<"z",".","p","n","g">>, <<"d","/","z",".","t","x","t">>,
      <<"d","/","n",".","t","x","t">> }

\* lines the user may type at the output-filename prompt
OutputLines ==
    { <<>>, <<" "," ">>, <<"o","u","t">>, <<" ","o","u","t"," ">>,
      <<"o","u","t",".","p","d","f">>, <<"o",".","P","D","F">>,
      <<"d","/","o">>, <<"d","/","o",".","p","d","f">>, <<"/","o">> }

Out_pdf == <<"o","u","t",".","p","d","f">>

\* every name an output can be written under
OutNames == { DefaultName(f) : f \in FileFeatures \cup {"blog"} } \cup
            { Out_pdf, <<"o",".","P","D","F">> }

\* ------------------------------------------------------------------ state
VARIABLES
    pc,           \* position in the program
    shell,        \* "main" or "sub": the menu loop the feature was chosen from
    feature,      \* the feature being run, "none" between runs
    runs,         \* features dispatched so far
    line,         \* the last line read by the active prompt loop
    verdict,      \* outcome of the Validator on that line, "none" if not run
    rejects,      \* lines the active collector rejected
    file_names,   \* the collector's / driver's list of accepted names
    url,          \* the URL get_valid_url returned
    output_name,  \* the name get_output_filename returned
    disk,         \* state of every possible output file in the working directory
    printed,      \* summary messages printed since the last clear_screen
    stats,        \* the (succeeded, failed) pair of the Stats line, <<>> if none
    result,       \* the exit path the driver took, "none" while it has not returned
    merger,       \* pages held by the PdfMerger
    merger_open,  \* TRUE between PdfMerger() and merger.close()
    error_count,  \* the driver's error_count
    outcomes,     \* what the library / converter did for each item attempted
    out_pages,    \* pages written to the output file by this run
    temp_dir,     \* "none", "exists" or "removed"
    temp_files,   \* PDFs in the temporary directory: name -> converted source
    images,       \* the images list of convert_images_to_pdf (indices of handles)
    handles       \* every image object created by the run

vars == << pc, shell, feature, runs, line, verdict, rejects, file_names, url,
           output_name, disk, printed, stats, result, merger, merger_open,
           error_count, outcomes, out_pages, temp_dir, temp_files, images, handles >>

shellVars  == << shell, runs >>
promptVars == << line, verdict, rejects, file_names, url, output_name >>
driverVars == << merger, merger_open, error_count, outcomes, out_pages, temp_dir,
                 temp_files, images, handles >>

\* os.path.exists(name)
FileExists(name) ==
    \/ name \in InputFiles
    \/ name \in DOMAIN disk /\ disk[name] # "absent"

\* TRUE when the wrapped library fails to parse the file
Unparsable(name) ==
    \/ name \in CorruptFiles
    \/ name \in DOMAIN disk /\ disk[name] = "partial"

\* ------------------------------------------------------ Filename Validator
validate_pdf_file(filename) ==
    IF Dirname(filename) # <<>> THEN "PathNotAllowed"
    ELSE IF ~FileExists(filename) THEN "NotFound"
    ELSE IF ~EndsWith(Lower(filename), DotPdf) THEN "UnsupportedExtension"
    ELSE IF Unparsable(filename) THEN "Corrupt"
    ELSE "OK"

validate_image_file(filename) ==
    IF Dirname(filename) # <<>> THEN "PathNotAllowed"
    ELSE IF ~FileExists(filename) THEN "NotFound"
    ELSE IF ~EndsWithAny(Lower(filename), ImageExtensions) THEN "UnsupportedExtension"
    ELSE IF Unparsable(filename) THEN "Corrupt"
    ELSE "OK"

validate_office_file_swapped(filename, extensions) ==
    IF Dirname(filename) # <<>> THEN "PathNotAllowed"
    ELSE IF ~EndsWithAny(Lower(filename), extensions) THEN "UnsupportedExtension"
    ELSE IF ~FileExists(filename) THEN "NotFound"
    ELSE "OK"

validate_office_file(filename, extensions) ==
    IF Dirname(filename) # <<>> THEN "PathNotAllowed"
    ELSE IF ~FileExists(filename) THEN "NotFound"
    ELSE IF ~EndsWithAny(Lower(filename), extensions) THEN "UnsupportedExtension"
    ELSE "OK"

\* the validator each collector calls
Validate(feat, filename) ==
    CASE feat = "merge" -> validate_pdf_file(filename)
      [] feat = "image" -> validate_image_file(filename)
      [] OTHER          -> validate_office_file(filename, OfficeExtensions(feat))

\* ------------------------------------------------------------------- Init
Init ==
    /\ pc = "menu"
    /\ shell = "main"
    /\ feature = "none"
    /\ runs = 0
    /\ line = <<>>
    /\ verdict = "none"
    /\ rejects = 0
    /\ file_names = <<>>
    /\ url = <<>>
    /\ output_name = <<>>
    /\ disk = [n \in OutNames |-> IF n = Out_pdf THEN "old" ELSE "absent"]
    /\ printed = {}
    /\ stats = <<>>
    /\ result = "none"
    /\ merger = <<>>
    /\ merger_open = FALSE
    /\ error_count = 0
    /\ outcomes = <<>>
    /\ out_pages = <<>>
    /\ temp_dir = "none"
    /\ temp_files = {}
    /\ images = <<>>
    /\ handles = <<>>

\* the locals of a finished feature are gone once the shell prompts again
FreshRun ==
    /\ feature' = "none"
    /\ line' = <<>>
    /\ verdict' = "none"
    /\ rejects' = 0
    /\ file_names' = <<>>
    /\ url' = <<>>
    /\ output_name' = <<>>
    /\ stats' = <<>>
    /\ result' = "none"
    /\ merger' = <<>>
    /\ merger_open' = FALSE
    /\ error_count' = 0
    /\ outcomes' = <<>>
    /\ out_pages' = <<>>
    /\ temp_dir' = "none"
    /\ temp_files' = {}
    /\ images' = <<>>
    /\ handles' = <<>>

\* where a feature returns to: the "Press Enter" prompt of the loop it was
\* dispatched from
PausePc == IF shell = "sub" THEN "pause_sub" ELSE "pause_main"

\* ------------------------------------------------------------- Menu Shell
\* One pass of the main loop up to the dispatch (show_menu and the if-chain).
MainMenu(choice) ==
    /\ pc = "menu"
    /\ printed' = IF choice \in {"1", "2", "3", "4"} THEN {} ELSE {"invalid_choice"}
    /\ CASE choice = "1" ->
              /\ runs < MaxRuns
              /\ feature' = "merge" /\ pc' = "collect" /\ runs' = runs + 1
              /\ UNCHANGED shell
         [] choice = "2" ->
              /\ runs < MaxRuns
              /\ feature' = "blog" /\ pc' = "url" /\ runs' = runs + 1
              /\ UNCHANGED shell
         [] choice = "3" ->
              /\ pc' = "submenu" /\ shell' = "sub"
              /\ UNCHANGED << feature, runs >>
         [] choice = "4" ->
              /\ pc' = "exited"
              /\ UNCHANGED << feature, runs, shell >>
         [] OTHER ->
              /\ pc' = "pause_main"
              /\ UNCHANGED << feature, runs, shell >>
    /\ UNCHANGED << promptVars, disk, stats, result, driverVars >>

\* One pass of the Create-PDF loop up to the dispatch.
SubMenu(choice) ==
    /\ pc = "submenu"
    /\ printed' = IF choice \in {"1", "2", "3", "4", "5"} THEN {} ELSE {"invalid_choice"}
    /\ CASE choice \in {"1", "2", "3", "4"} ->
              /\ runs < MaxRuns
              /\ feature' = (CASE choice = "1" -> "image" [] choice = "2" -> "word"
                               [] choice = "3" -> "excel" [] OTHER -> "ppt")
              /\ pc' = "collect" /\ runs' = runs + 1
              /\ UNCHANGED shell
         [] choice = "5" ->
              /\ pc' = "pause_main" /\ shell' = "main"
              /\ UNCHANGED << feature, runs >>
         [] OTHER ->
              /\ pc' = "pause_sub"
              /\ UNCHANGED << feature, runs, shell >>
    /\ UNCHANGED << promptVars, disk, stats, result, driverVars >>

\* input("Press Enter to continue...") at the end of either loop body
PressEnter ==
    /\ pc \in {"pause_main", "pause_sub"}
    /\ pc' = IF pc = "pause_sub" THEN "submenu" ELSE "menu"
    /\ FreshRun
    /\ UNCHANGED << shell, runs, disk, printed >>

\* ---------------------------------------------------- Interactive Collector
\* One iteration of the loop of get_file_names / get_image_files /
\* get_office_files: read a line, stop on the quit word, otherwise validate.
CollectLine(input) ==
    /\ pc = "collect"
    /\ line' = input
    /\ LET file_name == Strip(input)
       IN  IF Lower(file_name) = QuitWord
           THEN /\ pc' = "collected"
                /\ verdict' = "none"
                /\ UNCHANGED << file_names, rejects >>
           ELSE LET v == Validate(feature, file_name)
                IN  /\ verdict' = v
                    /\ pc' = "collect"
                    /\ IF v = "OK"
                       THEN /\ Len(file_names) < MaxFiles
                            /\ file_names' = Append(file_names, file_name)
                            /\ UNCHANGED rejects
                       ELSE /\ rejects < MaxRejects
                            /\ rejects' = rejects + 1
                            /\ UNCHANGED file_names
    /\ UNCHANGED << shellVars, feature, url, output_name, disk, printed, stats,
                    result, driverVars >>

\* `if not files:` in pdf_merger / image_to_pdf / handle_office_conversion
EmptySelection ==
    /\ pc = "collected"
    /\ IF file_names = <<>>
       THEN /\ printed' = printed \cup {"nothing_selected"}
            /\ pc' = PausePc
       ELSE /\ pc' = "outname"
            /\ UNCHANGED printed
    /\ UNCHANGED << shellVars, feature, promptVars, disk, stats, result, driverVars >>

\* ------------------------------------------------------ get_output_filename
\* the name one iteration of the loop computes from the line read
output_candidate_doubled(default_name, input) ==
    LET name == IF Strip(input) = <<>> THEN default_name ELSE Strip(input)
    IN  name \o DotPdf

output_candidate(default_name, input) ==
    LET name == IF Strip(input) = <<>> THEN default_name ELSE Strip(input)
    IN  IF ~EndsWith(Lower(name), DotPdf) THEN name \o DotPdf ELSE name

\* first pc of the driver each feature calls
DriverPc(feat) ==
    CASE feat = "merge" -> "merge_start"
      [] feat = "blog"  -> "convert_blog"
      [] feat = "image" -> "images_start"
      [] OTHER          -> "office_start"

\* One iteration of the loop of get_output_filename.
GetOutputFilename(input) ==
    /\ pc = "outname"
    /\ line' = input
    /\ LET name == output_candidate(DefaultName(feature), input)
       IN  IF Dirname(name) # <<>>
           THEN UNCHANGED << pc, output_name >>
           ELSE /\ output_name' = name
                /\ pc' = DriverPc(feature)
    /\ UNCHANGED << shellVars, feature, verdict, rejects, file_names, url, disk,
                    printed, stats, result, driverVars >>

\* --------------------------------------------------------- PDF Merge Driver
\* number of pages of each well-formed PDF of the working directory
PageCount(f) == IF f = F_a_pdf THEN 2 ELSE 1

\* the pages PdfMerger.append(path) adds for a readable file
PagesOf(f) == [i \in 1..PageCount(f) |-> << f, i >>]

\* what the library did for one item: the converter's exit status and whether
\* it wrote its output (both TRUE where no converter runs), and whether
\* merger.append / Image.open accepted the result
Outcome(exit0, wrote, appended) ==
    [exit0 |-> exit0, wrote |-> wrote, appended |-> appended]

\* merger.append(file_path) with the pages prepended (a plausible slip)
merger_append_front(m, pages) == pages \o m

\* merger.append(file_path): the file's pages go after those already held
merger_append(m, pages) == m \o pages

\* the pair printed by the Stats line
stats_line(total, errors) == << total - errors, errors >>

\* Entry of merge_pdfs: merger = PdfMerger(); error_count = 0.  The prompt
\* loops have returned and their locals are gone.
MergeStart ==
    /\ pc = "merge_start"
    /\ pc' = "append"
    /\ merger' = <<>>
    /\ merger_open' = TRUE
    /\ error_count' = 0
    /\ line' = <<>>
    /\ rejects' = 0
    /\ UNCHANGED << shellVars, feature, verdict, file_names, url, output_name, disk,
                    printed, stats, result, outcomes, out_pages, temp_dir,
                    temp_files, images, handles >>

\* One iteration of the loop of merge_pdfs.
MergeAppend(appended) ==
    /\ pc = "append"
    /\ Len(outcomes) < Len(file_names)
    /\ LET file_path == file_names[Len(outcomes) + 1]
       IN  /\ outcomes' = Append(outcomes, Outcome(TRUE, TRUE, appended))
           /\ IF appended
              THEN /\ merger' = merger_append(merger, PagesOf(file_path))
                   /\ UNCHANGED error_count
              ELSE /\ error_count' = error_count + 1
                   /\ UNCHANGED merger
    /\ UNCHANGED << pc, shellVars, feature, promptVars, disk, printed, stats, result,
                    merger_open, out_pages, temp_dir, temp_files, images, handles >>

\* open(name, 'wb') + merger.write(f) inside try/except, as merge_pdfs and
\* handle_office_conversion both do.  how = "open_fails": open result, the
\* file is untouched; "write_fails": the file was created / truncated and
\* write result; "ok": the document was written.
WriteMerged(how) ==
    /\ how \in {"open_fails", "write_fails", "ok"}
    /\ result' = how
    /\ IF how = "ok"
       THEN /\ disk' = [disk EXCEPT ![output_name] = "written"]
            /\ out_pages' = merger
            /\ printed' = printed \cup {"success"}
            /\ stats' = stats_line(Len(file_names), error_count)
       ELSE /\ disk' = IF how = "write_fails"
                       THEN [disk EXCEPT ![output_name] = "partial"]
                       ELSE disk
            /\ printed' = printed \cup {"critical"}
            /\ UNCHANGED << out_pages, stats >>

\* The try/except/finally of merge_pdfs after the loop.
MergeWrite(how) ==
    /\ pc = "append"
    /\ Len(outcomes) = Len(file_names)
    /\ WriteMerged(how)
    /\ merger_open' = FALSE
    /\ pc' = PausePc
    /\ UNCHANGED << shellVars, feature, promptVars, merger, error_count,
                    outcomes, temp_dir, temp_files, images, handles >>

\* ------------------------------------------------------ Office-to-PDF Driver
\* base_name of convert_office_to_pdf: the input's name with its extension
\* replaced by .pdf
GeneratedName(input_path) == SplitextRoot(Basename(input_path)) \o DotPdf

\* the temporary directory after the converter ran on input_path
AfterConverter(files, input_path, wrote) ==
    IF wrote
    THEN { t \in files : t.name # GeneratedName(input_path) }
         \cup { [name |-> GeneratedName(input_path), src |-> input_path] }
    ELSE files

\* convert_office_to_pdf: the generated path, or <<>> (None) when the
\* subprocess exits non-zero or the expected file does not exist afterwards.
\* files is the temporary directory after the subprocess ran.
convert_office_to_pdf(files, input_path, exit0) ==
    IF exit0 /\ \E t \in files : t.name = GeneratedName(input_path)
    THEN GeneratedName(input_path)
    ELSE <<>>

\* the page of the PDF stored under name in the temporary directory
TempPages(files, name) ==
    LET t == CHOOSE x \in files : x.name = name IN << << t.src, 1 >> >>

\* handle_office_conversion after get_output_filename: merger = PdfMerger();
\* temp_dir = tempfile.TemporaryDirectory(); error_count = 0.
OfficeStart ==
    /\ pc = "office_start"
    /\ pc' = "convert"
    /\ merger' = <<>>
    /\ merger_open' = TRUE
    /\ temp_dir' = "exists"
    /\ temp_files' = {}
    /\ error_count' = 0
    /\ line' = <<>>
    /\ rejects' = 0
    /\ UNCHANGED << shellVars, feature, verdict, file_names, url, output_name, disk,
                    printed, stats, result, outcomes, out_pages, images, handles >>

\* One iteration of the loop of handle_office_conversion: the converter
\* exits with status 0 or not, writes its output or not, and merger.append
\* accepts the generated PDF or raises.
OfficeConvert(exit0, wrote, appended) ==
    /\ pc = "convert"
    /\ Len(outcomes) < Len(file_names)
    /\ LET file_path == file_names[Len(outcomes) + 1]
           files    == AfterConverter(temp_files, file_path, wrote)
           temp_pdf == convert_office_to_pdf(files, file_path, exit0)
       IN  /\ temp_files' = files
           /\ temp_pdf = <<>> => appended
           /\ outcomes' = Append(outcomes, Outcome(exit0, wrote, appended))
           /\ IF temp_pdf # <<>> /\ appended
              THEN /\ merger' = merger_append(merger, TempPages(files, temp_pdf))
                   /\ UNCHANGED error_count
              ELSE /\ error_count' = error_count + 1
                   /\ UNCHANGED merger
    /\ UNCHANGED << pc, shellVars, feature, promptVars, disk, printed, stats, result,
                    merger_open, out_pages, temp_dir, images, handles >>

\* The rest of handle_office_conversion.  With no page merged it returns
\* before the try/finally: merger.close() and temp_dir.cleanup() are not
\* called, and the directory goes only if the TemporaryDirectory object is
\* finalized when the frame is dropped (collected), which the language does
\* not promise.
OfficeFinish(how, collected) ==
    /\ pc = "convert"
    /\ Len(outcomes) = Len(file_names)
    /\ IF Len(merger) = 0
       THEN /\ printed' = printed \cup {"no_pdfs"}
            /\ result' = "no_pages"
            /\ how = "ok"
            /\ temp_dir' = IF collected THEN "removed" ELSE "exists"
            /\ temp_files' = IF collected THEN {} ELSE temp_files
            /\ merger_open' = ~collected
            /\ UNCHANGED << disk, out_pages, stats >>
       ELSE /\ WriteMerged(how)
            /\ collected
            /\ merger_open' = FALSE
            /\ temp_dir' = "removed"
            /\ temp_files' = {}
    /\ pc' = PausePc
    /\ UNCHANGED << shellVars, feature, promptVars, merger, error_count, outcomes,
                    images, handles >>

\* ------------------------------------------------------ Image-to-PDF Driver
\* the except branch shared by convert_blog and convert_images_to_pdf:
\* if os.path.exists(output_filename): os.remove(output_filename)
remove_if_exists_skipped(d, name) == d

remove_if_exists(d, name) ==
    IF d[name] # "absent" THEN [d EXCEPT ![name] = "absent"] ELSE d

Handle(path, kind) == [path |-> path, kind |-> kind, closed |-> FALSE]

\* Entry of convert_images_to_pdf: images = [].
ImagesStart ==
    /\ pc = "images_start"
    /\ pc' = "open_image"
    /\ images' = <<>>
    /\ line' = <<>>
    /\ rejects' = 0
    /\ UNCHANGED << shellVars, feature, verdict, file_names, url, output_name, disk,
                    printed, stats, result, merger, merger_open, error_count,
                    outcomes, out_pages, temp_dir, temp_files, handles >>

\* One iteration of the loop of convert_images_to_pdf.  how = "open_fails":
\* Image.open raised; "convert_fails": the image opened and img.convert
\* raised (RGBA images only); "ok": the image, or its RGB conversion, was
\* appended to images.  convert returns a new image; the opened one is no
\* longer referenced.
OpenImage(how) ==
    /\ pc = "open_image"
    /\ Len(outcomes) < Len(file_names)
    /\ how \in {"open_fails", "convert_fails", "ok"}
    /\ LET path == file_names[Len(outcomes) + 1]
           opened == Append(handles, Handle(path, "file"))
       IN  /\ how = "convert_fails" => path \in RgbaFiles
           /\ outcomes' = Append(outcomes, Outcome(TRUE, TRUE, how = "ok"))
           /\ CASE how = "open_fails" ->
                     UNCHANGED << handles, images >>
                [] how = "convert_fails" ->
                     /\ handles' = opened
                     /\ UNCHANGED images
                [] OTHER ->
                     IF path \in RgbaFiles
                     THEN /\ handles' = Append(opened, Handle(path, "converted"))
                          /\ images' = Append(images, Len(opened) + 1)
                     ELSE /\ handles' = opened
                          /\ images' = Append(images, Len(opened))
    /\ UNCHANGED << pc, shellVars, feature, promptVars, disk, printed, stats, result,
                    merger, merger_open, error_count, out_pages, temp_dir, temp_files >>

\* finally: for img in images: img.close().  An image object that images does
\* not hold is released only if it is finalized (collected) at return.
close_images(hs, imgs, collected) ==
    [i \in 1..Len(hs) |->
        IF (\E k \in 1..Len(imgs) : imgs[k] = i) \/ collected
        THEN [hs[i] EXCEPT !.closed = TRUE]
        ELSE hs[i]]

\* `if not images:` with the check dropped (the save is always attempted)
no_images_never(imgs) == FALSE

\* `if not images:`
no_images(imgs) == Len(imgs) = 0

\* The rest of convert_images_to_pdf: the empty check, images[0].save inside
\* the outer try, the except branch and the finally.  how = "open_fails":
\* save raised before creating the file; "write_fails": after creating it.
ImageSave(how, collected) ==
    /\ pc = "open_image"
    /\ Len(outcomes) = Len(file_names)
    /\ how \in {"open_fails", "write_fails", "ok"}
    /\ IF no_images(images)
       THEN /\ how = "ok"
            /\ printed' = printed \cup {"no_images"}
            /\ result' = "no_images"
            /\ UNCHANGED << disk, stats >>
       ELSE /\ result' = how
            /\ IF how = "ok"
               THEN /\ disk' = [disk EXCEPT ![output_name] = "written"]
                    /\ printed' = printed \cup {"success"}
                    /\ stats' = << Len(images) >>
               ELSE /\ disk' = remove_if_exists(
                                  IF how = "write_fails"
                                  THEN [disk EXCEPT ![output_name] = "partial"]
                                  ELSE disk,
                                  output_name)
                    /\ printed' = printed \cup {"failed"}
                    /\ UNCHANGED stats
    /\ handles' = close_images(handles, images, collected)
    /\ pc' = PausePc
    /\ UNCHANGED << shellVars, feature, promptVars, merger, merger_open, error_count,
                    outcomes, out_pages, temp_dir, temp_files, images >>

\* ------------------------------------------------------- Blog-to-PDF Feature
U_quit    == <<"Q">>
U_bad     == <<"x">>
U_blog    == <<"h","t","t","p",":","/","/","e",".","c","o","/","B","l","o","g","/","1">>
U_medium  == <<"h","t","t","p",":","/","/","m","e","d","i","u","m",".","c","o","m","/","p">>
U_plain   == <<"h","t","t","p",":","/","/","e",".","c","o","/","p">>

\* lines the user may type at the URL prompt
UrlLines == {U_quit, U_bad, U_blog, U_medium, U_plain}

\* the lines validators.url accepts
WellFormedUrls == {U_blog, U_medium, U_plain}

\* position of the first c at or after from, Len(s) + 1 when there is none
FindFrom(s, c, from) ==
    IF \E i \in from..Len(s) : s[i] = c
    THEN CHOOSE i \in from..Len(s) : s[i] = c /\ \A j \in from..(i - 1) : s[j] # c
    ELSE Len(s) + 1

\* urlparse(u).netloc and .path of a scheme://netloc/path URL
UrlNetloc(u) ==
    LET start == FindFrom(u, ":", 1) + 3
    IN  SubSeq(u, start, FindFrom(u, "/", start) - 1)

UrlPath(u) ==
    LET start == FindFrom(u, ":", 1) + 3
    IN  SubSeq(u, FindFrom(u, "/", start), Len(u))

\* sub in s
Contains(s, sub) ==
    \E i \in 1..(Len(s) - Len(sub) + 1) : SubSeq(s, i, i + Len(sub) - 1) = sub

BlogIndicators ==
    { <<"/","b","l","o","g","/">>, <<"/","p","o","s","t","/">>,
      <<"/","a","r","t","i","c","l","e","/">>,
      <<"m","e","d","i","u","m",".","c","o","m">>,
      <<"w","o","r","d","p","r","e","s","s",".","c","o","m">>,
      <<"b","l","o","g","s","p","o","t">> }

is_blog_url(u) ==
    \E indicator \in BlogIndicators :
        Contains(Lower(UrlPath(u)), indicator) \/ Contains(UrlNetloc(u), indicator)

\* One iteration of the loop of get_valid_url, and, when it returns None,
\* the `if not url` branch of blog_to_pdf.  proceed is the answer to
\* "Continue anyway? (y/n)", read only for a URL that is not blog-like.
UrlPrompt(input, proceed) ==
    /\ pc = "url"
    /\ line' = input
    /\ LET u == Strip(input)
       IN  IF Lower(u) = QuitWord
           THEN /\ printed' = printed \cup {"invalid_url"}
                /\ pc' = PausePc
                /\ proceed = "n"
                /\ UNCHANGED url
           ELSE IF u \notin WellFormedUrls
           THEN /\ proceed = "n"
                /\ UNCHANGED << pc, url, printed >>
           ELSE IF ~is_blog_url(u) /\ Lower(<< proceed >>) # << "y" >>
           THEN UNCHANGED << pc, url, printed >>
           ELSE /\ is_blog_url(u) => proceed = "n"
                /\ url' = u
                /\ pc' = "outname"
                /\ UNCHANGED printed
    /\ UNCHANGED << shellVars, feature, verdict, rejects, file_names, output_name,
                    disk, stats, result, driverVars >>

\* convert_blog.  how names the first stage that raises: "fetch_fails"
\* (requests.get or raise_for_status), "extract_fails" (Document / summary),
\* "render_fails" (pdfkit, before creating the file), "render_partial"
\* (pdfkit, after creating it), "title_fails" (doc.title() in the second
\* success print), or "ok".
ConvertBlog(how) ==
    /\ pc = "convert_blog"
    /\ how \in {"fetch_fails", "extract_fails", "render_fails", "render_partial",
                "title_fails", "ok"}
    /\ result' = how
    /\ LET rendered == CASE how \in {"title_fails", "ok"} ->
                              [disk EXCEPT ![output_name] = "written"]
                         [] how = "render_partial" ->
                              [disk EXCEPT ![output_name] = "partial"]
                         [] OTHER -> disk
       IN  IF how = "ok"
           THEN /\ disk' = rendered
                /\ printed' = printed \cup {"success", "title"}
           ELSE /\ disk' = remove_if_exists(rendered, output_name)
                /\ printed' = printed \cup {"failed"} \cup
                              (IF how = "title_fails" THEN {"success"} ELSE {})
    /\ pc' = PausePc
    /\ UNCHANGED << shellVars, feature, promptVars, stats, driverVars >>

Next ==
    \/ \E c \in {"1", "2", "3", "4", "x"} : MainMenu(c)
    \/ \E c \in {"1", "2", "3", "4", "5", "x"} : SubMenu(c)
    \/ PressEnter
    \/ \E l \in CollectorLines : CollectLine(l)
    \/ EmptySelection
    \/ \E l \in OutputLines : GetOutputFilename(l)
    \/ MergeStart
    \/ \E b \in BOOLEAN : MergeAppend(b)
    \/ \E h \in {"open_fails", "write_fails", "ok"} : MergeWrite(h)
    \/ OfficeStart
    \/ \E e, w, a \in BOOLEAN : OfficeConvert(e, w, a)
    \/ \E h \in {"open_fails", "write_fails", "ok"}, g \in BOOLEAN : OfficeFinish(h, g)
    \/ \E l \in UrlLines, a \in {"y", "Y", "n"} : UrlPrompt(l, a)
    \/ \E h \in {"fetch_fails", "extract_fails", "render_fails", "render_partial",
                 "title_fails", "ok"} : ConvertBlog(h)
    \/ ImagesStart
    \/ \E h \in {"open_fails", "convert_fails", "ok"} : OpenImage(h)
    \/ \E h \in {"open_fails", "write_fails", "ok"}, g \in BOOLEAN : ImageSave(h, g)

Spec == Init /\ [][Next]_vars

\* =================================================================== claims
\* the feature's driver (or its abort branch) has returned to the shell
Returned == pc \in {"pause_main", "pause_sub"} /\ feature # "none"

HasSep(s) == \E i \in 1..Len(s) : s[i] = "/"

\* s ends in .pdf, letters in either case
EndsPdfAnyCase(s) ==
    /\ Len(s) >= 4
    /\ s[Len(s) - 3] = "."
    /\ s[Len(s) - 2] \in {"p", "P"}
    /\ s[Len(s) - 1] \in {"d", "D"}
    /\ s[Len(s)] \in {"f", "F"}

\* indices of the items the library refused to append
AppendFailed == { i \in 1..Len(outcomes) : ~outcomes[i].appended }

\* indices of the items the converter failed on: non-zero exit, or no output
ConvertFailed == { i \in 1..Len(outcomes) : ~outcomes[i].exit0 \/ ~outcomes[i].wrote }

\* pages of the files of fs whose index is not in bad, in list order
RECURSIVE PagesKept(_, _, _)
PagesKept(fs, bad, i) ==
    IF i > Len(fs) THEN <<>>
    ELSE (IF i \in bad THEN <<>> ELSE PagesOf(fs[i])) \o PagesKept(fs, bad, i + 1)

\* one page per converted input whose index is not in bad, in list order
RECURSIVE ConversionsKept(_, _, _)
ConversionsKept(fs, bad, i) ==
    IF i > Len(fs) THEN <<>>
    ELSE (IF i \in bad THEN <<>> ELSE << << fs[i], 1 >> >>)
         \o ConversionsKept(fs, bad, i + 1)

\* C1: when the office-to-PDF driver has returned, by any exit path, the
\* temporary directory it created no longer exists.
C1_TempDirRemoved ==
    (Returned /\ feature \in OfficeFeatures /\ result # "none") => temp_dir # "exists"

\* C2: after merge_pdfs every file of the list was attempted, and when the
\* output was written it holds exactly the pages of the files whose append
\* succeeded, in list order, and the Stats line is (total - failed, failed).
C2_MergeReport ==
    (Returned /\ feature = "merge" /\ result # "none") =>
        /\ Len(outcomes) = Len(file_names)
        /\ result = "ok" =>
              /\ disk[output_name] = "written"
              /\ out_pages = PagesKept(file_names, AppendFailed, 1)
              /\ stats = << Len(file_names) - Cardinality(AppendFailed),
                            Cardinality(AppendFailed) >>

\* [a.pdf, b.PDF] merged with the append of b.PDF failing: "1 succeeded, 1 failed"
C2_Witness ==
    /\ Returned /\ feature = "merge" /\ result = "ok"
    /\ file_names = << F_a_pdf, F_b_PDF >>
    /\ outcomes[1].appended /\ ~outcomes[2].appended
    /\ out_pages = PagesOf(F_a_pdf)
    /\ stats = << 1, 1 >>

\* C3: when the office driver has written its output and the converter
\* failed for k of the N inputs (k < N, every append accepted), the output
\* holds the other N - k conversions in input order and the Stats line is
\* (N - k, k).
C3_OfficeReport ==
    ( /\ Returned /\ feature \in OfficeFeatures /\ result = "ok"
      /\ AppendFailed = {}
      /\ Cardinality(ConvertFailed) < Len(file_names) ) =>
        /\ out_pages = ConversionsKept(file_names, ConvertFailed, 1)
        /\ stats = << Len(file_names) - Cardinality(ConvertFailed),
                      Cardinality(ConvertFailed) >>

\* C4: in every category the Validator reports the first failing check in the
\* order separator, existence, extension: a name with a separator is
\* PathNotAllowed, a name without one that does not exist is NotFound.
C4_ValidatorOrder ==
    (pc = "collect" /\ verdict # "none") =>
        LET name == Strip(line)
        IN  /\ HasSep(name) => verdict = "PathNotAllowed"
            /\ (~HasSep(name) /\ ~FileExists(name)) => verdict = "NotFound"

\* a missing file with an accepted Word extension is NotFound
C4_Witness ==
    /\ pc = "collect" /\ feature = "word"
    /\ Strip(line) = <<"z",".","d","o","c">>
    /\ verdict = "NotFound"

\* C5: get_output_filename returns the (trimmed) entry unchanged when it ends
\* in .pdf in any case, the entry plus .pdf otherwise, the default for an
\* empty entry; the result ends in .pdf and has no directory component, and
\* an entry with a directory component is never returned.
C5_OutputName ==
    (pc \in {"merge_start", "images_start", "office_start", "convert_blog"}) =>
        LET entry == Strip(line)
        IN  /\ entry = <<>> => output_name = DefaultName(feature)
            /\ (entry # <<>> /\ EndsPdfAnyCase(entry)) => output_name = entry
            /\ (entry # <<>> /\ ~EndsPdfAnyCase(entry)) => output_name = entry \o DotPdf
            /\ EndsPdfAnyCase(output_name)
            /\ ~HasSep(output_name)
            /\ ~HasSep(entry)

\* o.PDF is returned as typed
C5_Witness ==
    /\ pc = "merge_start"
    /\ line = <<"o",".","P","D","F">>
    /\ output_name = <<"o",".","P","D","F">>

\* C6: when convert_blog fails at fetch, extraction or render, it returns to
\* the caller with no file of the output name on disk, the failure reported
\* and no success message.
C6_BlogFailure ==
    (feature = "blog" /\
     result \in {"fetch_fails", "extract_fails", "render_fails", "render_partial"}) =>
        /\ Returned
        /\ disk[output_name] = "absent"
        /\ "failed" \in printed
        /\ "success" \notin printed

\* the fetch failed while a file of the output name was already on disk
C6_Witness ==
    /\ Returned /\ feature = "blog" /\ result = "fetch_fails"
    /\ output_name = Out_pdf

\* C7: when no image survives, convert_images_to_pdf prints the warning,
\* leaves the disk as it was (no file created, an existing one untouched)
\* and returns to its caller without a success or failure message.
C7_NoImages ==
    [][ (feature = "image" /\ pc = "open_image" /\ pc' # "open_image" /\ images = <<>>) =>
            /\ pc' = PausePc
            /\ disk' = disk
            /\ "no_images" \in printed'
            /\ printed' \cap {"success", "failed", "critical"} = {}
            /\ result' = "no_images" ]_vars

\* every image failed to open and the existing out.pdf is still the old file
C7_Witness ==
    /\ Returned /\ feature = "image" /\ result = "no_images"
    /\ Len(file_names) >= 2
    /\ output_name = Out_pdf /\ disk[Out_pdf] = "old"

\* the collector has read exactly one line
FirstLineRead ==
    /\ feature \in FileFeatures
    /\ \/ pc = "collect" /\ Len(file_names) + rejects = 1
       \/ pc = "collected" /\ file_names = <<>> /\ rejects = 0

\* C8 as stated: a first line equal to "quit" in any case stops the collector
\* without validation and with an empty list.
C8_QuitStops ==
    (FirstLineRead /\ Lower(line) = <<"q","u","i","t">>) =>
        (pc = "collected" /\ verdict = "none" /\ file_names = <<>>)

\* C8 amended: the quit word is "q".  A first line that, trimmed and
\* lower-cased, equals "q" stops the collector without validation and with an
\* empty list; the feature then returns to the menu with a warning, without
\* prompting for an output name, entering a driver or touching any file.
C8_QStops ==
    /\ [] ( (FirstLineRead /\ Lower(Strip(line)) = <<"q">>) =>
              (pc = "collected" /\ verdict = "none" /\ file_names = <<>>) )
    /\ [][ (pc = "collected" /\ file_names = <<>>) =>
              /\ pc' = PausePc
              /\ "nothing_selected" \in printed'
              /\ disk' = disk
              /\ UNCHANGED << output_name, result, driverVars >> ]_vars
    /\ [] ( (Returned /\ "nothing_selected" \in printed) =>
              /\ output_name = <<>>
              /\ result = "none"
              /\ temp_dir = "none"
              /\ ~merger_open
              /\ handles = <<>> )

\* "Q" typed first at the Word collector: back at the shell with the warning
C8_Witness ==
    /\ Returned /\ feature = "word"
    /\ line = <<"Q">> /\ rejects = 0 /\ file_names = <<>>
    /\ "nothing_selected" \in printed

\* C9: in every driver that writes an aggregate output, when the final write
\* fails after the file was created, no file of the output name remains, an
\* error is reported, and neither a success message nor a Stats line is printed.
C9_NoPartialOutput ==
    (Returned /\ feature \in FileFeatures /\ result = "write_fails") =>
        /\ disk[output_name] = "absent"
        /\ printed \cap {"critical", "failed"} # {}
        /\ "success" \notin printed
        /\ stats = <<>>

\* C10: when convert_images_to_pdf has returned, every image it opened with
\* Image.open is closed.
C10_HandlesClosed ==
    (Returned /\ feature = "image") =>
        \A i \in 1..Len(handles) : handles[i].kind = "file" => handles[i].closed

====
